---- MODULE Spec2Model ----
(***************************************************************************)
(* A model of conversion.py: the PDF -> JSON converter.                    *)
(*                                                                         *)
(* Python values are modelled as follows.                                  *)
(*   str (element text)   a sequence of one-character strings              *)
(*   str (description)    a sequence of string pieces, concatenated by \o  *)
(*   Optional[T]          None == << >>, a present value x is Some(x)      *)
(*   dict (pages)         a sequence of entries in insertion order         *)
(* The external collaborators (Path.is_file, fitz.open, partition_pdf,     *)
(* pandas.read_csv) are nondeterministic: each either raises or returns.   *)
(***************************************************************************)
EXTENDS Integers, Sequences, FiniteSets

VARIABLES
    pc,                 \* position of the run in main / process_pdf
    pdf_exists,         \* whether args.pdf_path names an existing file
    strategy,           \* args.strategy
    count_calls,        \* number of fitz.open invocations so far
    calls,              \* strategies partition_pdf has been invoked with, in order
    stream_open,        \* whether partition_pdf has returned the element stream
    elements,           \* the elements of the stream the for loop has taken so far
    current_section,    \* process_pdf local
    current_subsection, \* process_pdf local
    table_data,         \* process_pdf local: the last parse_markdown_table result
    pages,              \* process_pdf local: the defaultdict(list)
    result,             \* what process_pdf returned (None until it returns)
    err,                \* the exception propagating out of process_pdf, if any
    output,             \* the content of the output file (None: never opened)
    dtext,              \* detector harness: the text under test
    dres,               \* detector harness: the value the function returned
    dcat,               \* classifier harness: the category under test
    dtype               \* classifier harness: the value the function returned

vars == <<pc, pdf_exists, strategy, count_calls, calls, stream_open, elements,
          current_section, current_subsection, table_data, pages, result,
          err, output, dtext, dres, dcat, dtype>>

----------------------------------------------------------------------------
(* Bounds of the model *)

MaxElems == 2      \* longest element stream the engine returns
MaxPage == 2       \* largest page number of an element
MaxTextLen == 5    \* longest text the detector harness enumerates

----------------------------------------------------------------------------
(* Python values *)

None == << >>
Some(x) == <<x>>
IsNone(o) == o = << >>
Val(o) == o[1]

DEFAULT_STRATEGY == "hi_res"
FALLBACK_STRATEGY == "fast"

Digit == {"1", "2"}
Space == {" "}
Alphabet == Digit \cup Space \cup {".", "a"}

\* str(n) for the small page numbers of the model
DecimalDigits == <<"1", "2", "3", "4", "5", "6", "7", "8", "9">>
Str(n) == DecimalDigits[n]

\* str.strip(): drop leading and trailing whitespace
RECURSIVE LStrip(_)
LStrip(s) ==
    IF s = << >> THEN s
    ELSE IF Head(s) \in Space THEN LStrip(Tail(s)) ELSE s

RECURSIVE RStrip(_)
RStrip(s) ==
    IF s = << >> THEN s
    ELSE IF s[Len(s)] \in Space THEN RStrip(SubSeq(s, 1, Len(s) - 1)) ELSE s

Strip(s) == RStrip(LStrip(s))

----------------------------------------------------------------------------
(* re.match(r"^\d+(\.\d+)*\s+(.+)$", s)                                    *)
(* Every quantifier is greedy and, over this alphabet (no newline), the    *)
(* greedy choice is the only one that can match, so no backtracking is     *)
(* modelled.  Positions are 1-based; a position is the next unread index.  *)

\* the position after the longest run of characters of class C starting at i
RECURSIVE RunEnd(_, _, _)
RunEnd(s, i, C) ==
    IF i <= Len(s) /\ s[i] \in C THEN RunEnd(s, i + 1, C) ELSE i

\* (\.\d+)* from position i; g is the start of the last repetition (0: none).
\* Returns <<position after the repetitions, start of the last repetition>>.
RECURSIVE DotGroups(_, _, _)
DotGroups(s, i, g) ==
    IF i <= Len(s) /\ s[i] = "." /\ RunEnd(s, i + 1, Digit) > i + 1
    THEN DotGroups(s, RunEnd(s, i + 1, Digit), i)
    ELSE <<i, g>>

\* mutant: the pattern has \s* where the code has \s+
ReMatchGroupsOptionalSpace(s) ==
    LET d  == RunEnd(s, 1, Digit)
        gr == DotGroups(s, d, 0)
        g  == gr[1]
        w  == RunEnd(s, g, Space)
    IN  IF d > 1 /\ w <= Len(s)
        THEN Some(<< IF gr[2] = 0 THEN None ELSE Some(SubSeq(s, gr[2], g - 1)),
                     Some(SubSeq(s, w, Len(s))) >>)
        ELSE None

\* The match object's groups() as <<group 1, group 2>>, or None on no match.
\* Group 1 is the LAST repetition of (\.\d+), and None when it repeated 0 times.
ReMatchGroups(s) ==
    LET d  == RunEnd(s, 1, Digit)
        gr == DotGroups(s, d, 0)
        g  == gr[1]
        w  == RunEnd(s, g, Space)
    IN  IF d > 1 /\ w > g /\ w <= Len(s)
        THEN Some(<< IF gr[2] = 0 THEN None ELSE Some(SubSeq(s, gr[2], g - 1)),
                     Some(SubSeq(s, w, Len(s))) >>)
        ELSE None

detect_section_subsection(text) ==
    IF text = << >> THEN <<None, None>>
    ELSE LET m == ReMatchGroups(Strip(text))
         IN  IF IsNone(m) THEN <<None, None>> ELSE Val(m)

----------------------------------------------------------------------------
(* The schema type of an element category *)

\* mutant: "FigureCaption" is not listed with "Image"
map_element_type_image_only(category) ==
    IF category = "Table" THEN "table"
    ELSE IF category = "Image" THEN "chart"
    ELSE "paragraph"

map_element_type(category) ==
    IF category = "Table" THEN "table"
    ELSE IF category \in {"Image", "FigureCaption"} THEN "chart"
    ELSE "paragraph"

(* parse_markdown_table: pandas either raises (caught: None is returned)    *)
(* or yields the grid.  What pandas does with a text is not part of the     *)
(* program; its outcome is an input of the step.                            *)
Grids == { << <<"1", "2">> >> }
PandasOutcomes == {<<"raises">>} \cup { <<"returns", g>> : g \in Grids }

parse_markdown_table(outcome) ==
    IF outcome[1] = "raises" THEN None ELSE Some(outcome[2])

----------------------------------------------------------------------------
(* The element streams the extraction engine may return *)

NoAttr == "no attribute"     \* el.metadata has no attribute "coordinates"
NullCoords == "None"         \* el.metadata.coordinates is None
HasPoints == "points"        \* el.metadata.coordinates.points is Points
Points == "((0, 0), (0, 1), (1, 1), (1, 0))"

T_EMPTY == << >>
T_PLAIN == <<" ", "a", " ">>
T_ONE == <<"1", " ", "a">>
T_DOTTED == <<"1", ".", "2", " ", "a">>
Texts == {T_EMPTY, T_PLAIN, T_ONE, T_DOTTED}
Categories == {"Title", "NarrativeText", "Table", "Image", "FigureCaption"}
PageNumbers == 1..MaxPage

Element(c, t, p, k) ==
    [category |-> c, text |-> t, page_number |-> p, coordinates |-> k]

\* elements without coordinates: every heading form on titles and on body text
HeadingPool ==
    { Element(ct[1], ct[2], p, NoAttr) :
        ct \in ({"Title", "NarrativeText"} \X Texts)
               \cup {<<"Table", T_DOTTED>>, <<"Image", T_DOTTED>>,
                     <<"FigureCaption", T_PLAIN>>},
        p \in PageNumbers }

\* elements whose metadata has the coordinates attribute, set or None
BBoxPool ==
    { Element(ct[1], ct[2], p, k) :
        ct \in {<<"Title", T_DOTTED>>, <<"NarrativeText", T_DOTTED>>,
                <<"NarrativeText", T_PLAIN>>, <<"Table", T_PLAIN>>,
                <<"Image", T_EMPTY>>},
        p \in PageNumbers,
        k \in {NullCoords, HasPoints} }

SeqsUpTo(S, n) == UNION { [1..k -> S] : k \in 0..n }

Streams == SeqsUpTo(HeadingPool, MaxElems) \cup SeqsUpTo(BBoxPool, MaxElems)

\* The elements that may follow the prefix read: those e with prefix \o <<e>>
\* a prefix of a stream of Streams.  The engine returns the whole stream at
\* once; the for loop reads it in order, and the model fixes each element
\* when the loop reads it.
NextElements(prefix) ==
    IF Len(prefix) >= MaxElems THEN {}
    ELSE IF prefix = << >> THEN HeadingPool \cup BBoxPool
    ELSE IF prefix[1] \in HeadingPool THEN HeadingPool
    ELSE BBoxPool

----------------------------------------------------------------------------
(* process_pdf: the per-element step and the final sort *)

\* pages[page_num].append(item) on the defaultdict(list): a first element of a
\* page creates the page's entry at the end of the dict
\* mutant: the item is put at the front of the page's list
RECURSIVE DictPrepend(_, _, _)
DictPrepend(d, k, item) ==
    IF d = << >> THEN << [page_number |-> k, content |-> <<item>>] >>
    ELSE IF Head(d).page_number = k
         THEN <<[Head(d) EXCEPT !.content = <<item>> \o @]>> \o Tail(d)
         ELSE <<Head(d)>> \o DictPrepend(Tail(d), k, item)

RECURSIVE DictAppend(_, _, _)
DictAppend(d, k, item) ==
    IF d = << >> THEN << [page_number |-> k, content |-> <<item>>] >>
    ELSE IF Head(d).page_number = k
         THEN <<[Head(d) EXCEPT !.content = Append(@, item)]>> \o Tail(d)
         ELSE <<Head(d)>> \o DictAppend(Tail(d), k, item)

\* sorted(pages.items()): ascending by the key (keys are distinct)
RECURSIVE Insert(_, _)
Insert(e, s) ==
    IF s = << >> THEN <<e>>
    ELSE IF e.page_number <= Head(s).page_number THEN <<e>> \o s
         ELSE <<Head(s)>> \o Insert(e, Tail(s))

\* mutant: the pages are emitted in the dict's insertion order
SortedInsertionOrder(d) == d

RECURSIVE Sorted(_)
Sorted(d) == IF d = << >> THEN << >> ELSE Insert(Head(d), Sorted(Tail(d)))

\* text = el.text if el.text else ""
TextOf(el) == el.text

\* mutant: the section is set by every element, whatever its category
SectionAfterAnyCategory(el, cs) ==
    LET section == detect_section_subsection(TextOf(el))[1]
    IN  IF ~IsNone(section) THEN section ELSE Some(TextOf(el))

\* mutant: the fallback section is the stripped text
SectionAfterStripped(el, cs) ==
    LET section == detect_section_subsection(TextOf(el))[1]
    IN  IF el.category = "Title"
        THEN (IF ~IsNone(section) THEN section ELSE Some(Strip(TextOf(el))))
        ELSE cs

\* mutant: the section is the detected label alone, without `or text`
SectionAfterLabelOnly(el, cs) ==
    IF el.category = "Title"
    THEN detect_section_subsection(TextOf(el))[1]
    ELSE cs

\* lines 173-175: the section state after the element
SectionAfter(el, cs) ==
    LET section == detect_section_subsection(TextOf(el))[1]
    IN  IF el.category = "Title"
        THEN (IF ~IsNone(section) THEN section ELSE Some(TextOf(el)))
        ELSE cs

\* mutant: a title without a remainder keeps the subsection
SubsectionAfterKeep(el, css) ==
    LET subsection == detect_section_subsection(TextOf(el))[2]
    IN  IF el.category = "Title" /\ ~IsNone(subsection) THEN subsection ELSE css

SubsectionAfter(el, css) ==
    IF el.category = "Title"
    THEN detect_section_subsection(TextOf(el))[2]
    ELSE css

\* lines 186-196: the description before the bbox annotation
BaseDescription(el) ==
    LET el_type == map_element_type(el.category)
        section == detect_section_subsection(TextOf(el))[1]
    IN  IF el_type = "table"
        THEN Some(<<"Table on page ", Str(el.page_number)>>)
        ELSE IF el_type = "chart"
        THEN Some(<<"Chart/Image on page ", Str(el.page_number),
                    " (category: ", el.category, ")">>)
        ELSE IF ~IsNone(section) THEN Some(<<"Section header">>)
        ELSE None

\* mutant: the bbox is annotated only when nothing else was
WithBBoxUnlessDescribed(el, description) ==
    IF el.coordinates = NoAttr \/ ~IsNone(description) THEN description
    ELSE Some(<<" (bbox=", Points, ")">>)

\* lines 199-201: (description or "") + f" (bbox={bbox})"
WithBBox(el, description) ==
    IF el.coordinates = NoAttr THEN description
    ELSE Some((IF IsNone(description) THEN << >> ELSE Val(description))
              \o <<" (bbox=", Points, ")">>)

\* mutant: line 193 is missing, a chart keeps its text
ContentItemChartKeepsText(el, cs, css, td) ==
    LET el_type == map_element_type(el.category)
    IN  [type        |-> el_type,
         section     |-> cs,
         sub_section |-> css,
         description |-> WithBBox(el, BaseDescription(el)),
         text        |-> IF el_type = "table" THEN None ELSE Some(TextOf(el)),
         table_data  |-> IF el_type = "table" THEN td ELSE None]

\* lines 177-201: the content item of an element; td is the parse result
ContentItem(el, cs, css, td) ==
    LET el_type == map_element_type(el.category)
    IN  [type        |-> el_type,
         section     |-> cs,
         sub_section |-> css,
         description |-> WithBBox(el, BaseDescription(el)),
         text        |-> IF el_type \in {"table", "chart"}
                         THEN None ELSE Some(TextOf(el)),
         table_data  |-> IF el_type = "table" THEN td ELSE None]

----------------------------------------------------------------------------
(* The run of main *)

Strategies == {DEFAULT_STRATEGY, FALLBACK_STRATEGY, "ocr_only"}

Init ==
    /\ pc = "start"
    /\ pdf_exists \in BOOLEAN
    /\ strategy \in Strategies
    /\ count_calls = 0
    /\ calls = << >>
    /\ stream_open = FALSE
    /\ elements = << >>
    /\ current_section = None
    /\ current_subsection = None
    /\ table_data = None
    /\ pages = << >>
    /\ result = None
    /\ err = None
    /\ output = None
    /\ dtext = << >>
    /\ dres = None
    /\ dcat = "Title"
    /\ dtype = None

Raise(e) ==
    /\ pc' = "raised"
    /\ err' = Some(e)

\* mutant: the existence check does not stop the run
CheckFileNoFailFast ==
    /\ pc = "start"
    /\ pc' = "count"
    /\ UNCHANGED <<pdf_exists, strategy, count_calls, calls, stream_open,
                   elements, current_section, current_subsection, table_data,
                   pages, result, err, output, dtext, dres, dcat, dtype>>

\* lines 132-135
CheckFile ==
    /\ pc = "start"
    /\ IF pdf_exists
       THEN pc' = "count" /\ err' = err
       ELSE Raise("FileNotFoundError")
    /\ UNCHANGED <<pdf_exists, strategy, count_calls, calls, stream_open, elements,
                   current_section, current_subsection, table_data, pages,
                   result, output, dtext, dres, dcat, dtype>>

\* lines 138-140: fitz.open returns the document or raises
PageCount ==
    /\ pc = "count"
    /\ count_calls' = count_calls + 1
    /\ \E ok \in BOOLEAN :
          IF ok THEN pc' = "extract" /\ err' = err
                ELSE Raise("FitzError")
    /\ UNCHANGED <<pdf_exists, strategy, calls, stream_open, elements,
                   current_section, current_subsection, table_data, pages,
                   result, output, dtext, dres, dcat, dtype>>

\* mutant: a failed invocation is retried whatever the requested strategy
ShouldFallbackAlways(strat) == TRUE

\* line 152: whether a failed invocation is retried with the fallback
ShouldFallback(strat) == strat # FALLBACK_STRATEGY

\* lines 144-152, 159-160: the first invocation of the engine
Partition ==
    /\ pc = "extract"
    /\ calls' = Append(calls, strategy)
    /\ \/ /\ stream_open' = TRUE
          /\ pc' = "scan"
          /\ err' = err
       \/ /\ stream_open' = stream_open
          /\ IF ShouldFallback(strategy)
             THEN pc' = "fallback" /\ err' = err
             ELSE Raise("PartitionError")
    /\ UNCHANGED <<pdf_exists, strategy, count_calls, elements,
                   current_section, current_subsection, table_data, pages,
                   result, output, dtext, dres, dcat, dtype>>

\* lines 153-158: the invocation with the fallback strategy
PartitionFallback ==
    /\ pc = "fallback"
    /\ calls' = Append(calls, FALLBACK_STRATEGY)
    /\ \/ /\ stream_open' = TRUE
          /\ pc' = "scan"
          /\ err' = err
       \/ /\ stream_open' = stream_open
          /\ Raise("PartitionError")
    /\ UNCHANGED <<pdf_exists, strategy, count_calls, elements,
                   current_section, current_subsection, table_data, pages,
                   result, output, dtext, dres, dcat, dtype>>

\* mutant: the item is built before the section state is updated
ProcessElementItemFirst ==
    /\ pc = "scan"
    /\ \E el \in NextElements(elements) :
       LET cs == SectionAfter(el, current_section)
           css == SubsectionAfter(el, current_subsection)
       IN  /\ elements' = Append(elements, el)
           /\ current_section' = cs
           /\ current_subsection' = css
           /\ \E outcome \in PandasOutcomes :
                 /\ table_data' = IF map_element_type(el.category) = "table"
                                  THEN parse_markdown_table(outcome)
                                  ELSE table_data
                 /\ IF el.coordinates = NullCoords
                    THEN \* line 200: None has no attribute "points"
                         /\ Raise("AttributeError")
                         /\ pages' = pages
                    ELSE /\ pages' = DictAppend(pages, el.page_number,
                                        ContentItem(el, current_section,
                                                    current_subsection, table_data'))
                         /\ pc' = pc
                         /\ err' = err
    /\ UNCHANGED <<pdf_exists, strategy, count_calls, calls, stream_open,
                   result, output, dtext, dres, dcat, dtype>>

\* lines 167-203: one iteration of the for loop
ProcessElement ==
    /\ pc = "scan"
    /\ \E el \in NextElements(elements) :
       LET cs == SectionAfter(el, current_section)
           css == SubsectionAfter(el, current_subsection)
       IN  /\ elements' = Append(elements, el)
           /\ current_section' = cs
           /\ current_subsection' = css
           /\ \E outcome \in PandasOutcomes :
                 /\ table_data' = IF map_element_type(el.category) = "table"
                                  THEN parse_markdown_table(outcome)
                                  ELSE table_data
                 /\ IF el.coordinates = NullCoords
                    THEN \* line 200: None has no attribute "points"
                         /\ Raise("AttributeError")
                         /\ pages' = pages
                    ELSE /\ pages' = DictAppend(pages, el.page_number,
                                        ContentItem(el, cs, css, table_data'))
                         /\ pc' = pc
                         /\ err' = err
    /\ UNCHANGED <<pdf_exists, strategy, count_calls, calls, stream_open,
                   result, output, dtext, dres, dcat, dtype>>

\* lines 167, 206-213: the stream has no further element; sort the pages and
\* return
Return ==
    /\ pc = "scan"
    /\ result' = Some([pages |-> Sorted(pages)])
    /\ pc' = "returned"
    /\ UNCHANGED <<pdf_exists, strategy, count_calls, calls, stream_open, elements,
                   current_section, current_subsection, table_data, pages,
                   err, output, dtext, dres, dcat, dtype>>

\* lines 229-232: main writes the returned document to the output file
WriteOutput ==
    /\ pc = "returned"
    /\ output' = result
    /\ pc' = "done"
    /\ UNCHANGED <<pdf_exists, strategy, count_calls, calls, stream_open, elements,
                   current_section, current_subsection, table_data, pages,
                   result, err, dtext, dres, dcat, dtype>>

\* mutant: the failure path writes what has been collected before re-raising
ReraiseAfterWriting ==
    /\ pc = "raised"
    /\ pc' = "failed"
    /\ output' = Some([pages |-> Sorted(pages)])
    /\ UNCHANGED <<pdf_exists, strategy, count_calls, calls, stream_open,
                   elements, current_section, current_subsection, table_data,
                   pages, result, err, dtext, dres, dcat, dtype>>

\* lines 233-235: main logs the failure and re-raises it
Reraise ==
    /\ pc = "raised"
    /\ pc' = "failed"
    /\ UNCHANGED <<pdf_exists, strategy, count_calls, calls, stream_open, elements,
                   current_section, current_subsection, table_data, pages,
                   result, err, output, dtext, dres, dcat, dtype>>

Next ==
    \/ CheckFile
    \/ PageCount
    \/ Partition
    \/ PartitionFallback
    \/ ProcessElement
    \/ Return
    \/ WriteOutput
    \/ Reraise

Spec == Init /\ [][Next]_vars

----------------------------------------------------------------------------
(* The pure functions on their own: every text up to MaxTextLen *)

TextsUpTo(n) == SeqsUpTo(Alphabet, n)

\* the categories of the streams, and labels map_element_type does not name
CategoryLabels == Categories \cup {"ListItem", "table", ""}

InitDetect ==
    /\ pc = "detect"
    /\ pdf_exists = FALSE
    /\ strategy = DEFAULT_STRATEGY
    /\ count_calls = 0
    /\ calls = << >>
    /\ stream_open = FALSE
    /\ elements = << >>
    /\ current_section = None
    /\ current_subsection = None
    /\ table_data = None
    /\ pages = << >>
    /\ result = None
    /\ err = None
    /\ output = None
    /\ dtext \in TextsUpTo(MaxTextLen)
    /\ dres = None
    /\ dcat \in CategoryLabels
    /\ dtype = None

\* a call of detect_section_subsection(dtext)
Detect ==
    /\ pc = "detect"
    /\ dres' = Some(detect_section_subsection(dtext))
    /\ pc' = "detected"
    /\ UNCHANGED <<pdf_exists, strategy, count_calls, calls, stream_open,
                   elements, current_section, current_subsection, table_data,
                   pages, result, err, output, dtext, dcat, dtype>>

\* a call of map_element_type(dcat)
Classify ==
    /\ IsNone(dtype)
    /\ pc \in {"detect", "detected"}
    /\ dtype' = Some(map_element_type(dcat))
    /\ UNCHANGED <<pc, pdf_exists, strategy, count_calls, calls, stream_open,
                   elements, current_section, current_subsection, table_data,
                   pages, result, err, output, dtext, dres, dcat>>

NextDetect == Detect \/ Classify

SpecDetect == InitDetect /\ [][NextDetect]_vars

----------------------------------------------------------------------------
(* Vocabulary of the properties *)

\* the element the for loop took last
LastEl == elements[Len(elements)]

\* the items of every page of a dict or of a document's page list
ItemsOf(d) ==
    UNION { { d[i].content[k] : k \in 1..Len(d[i].content) } : i \in 1..Len(d) }

\* the stream's elements of page p, in stream order
OnPage(p) == SelectSeq(elements, LAMBDA e : e.page_number = p)

\* the item's fields that the element alone decides
ItemIsOf(item, el) ==
    /\ item.type = map_element_type(el.category)
    /\ item.description = WithBBox(el, BaseDescription(el))
    /\ item.type = "paragraph" => item.text = Some(el.text)

\* every page list of d holds, in stream order, one item per element of its page
PageListsFollowStream(d) ==
    /\ \A i \in 1..Len(d) :
          LET sub == OnPage(d[i].page_number)
          IN  /\ Len(d[i].content) = Len(sub)
              /\ \A k \in 1..Len(sub) : ItemIsOf(d[i].content[k], sub[k])
    /\ \A j \in 1..Len(elements) :
          \E i \in 1..Len(d) : d[i].page_number = elements[j].page_number

----------------------------------------------------------------------------
(* C1: the section state changes only in the step of a "Title" element: it  *)
(* is absent before the first element, and every step that takes an        *)
(* element of another category, on the same page or on another one, leaves *)
(* current_section and current_subsection as they were.                    *)
C1_SectionFrame ==
    /\ [](elements = << >> => IsNone(current_section) /\ IsNone(current_subsection))
    /\ [][ (current_section' # current_section
            \/ current_subsection' # current_subsection)
           => /\ Len(elements') = Len(elements) + 1
              /\ elements'[Len(elements')].category = "Title" ]_vars

\* a body element on another page than the title before it kept the title's state
C1_Witness ==
    /\ Len(elements) = 2
    /\ elements[1].category = "Title"
    /\ elements[2].category = "NarrativeText"
    /\ elements[2].page_number # elements[1].page_number
    /\ current_section = Some(elements[1].text)
    /\ elements[2].text # elements[1].text

(* C2: the fallback rule.  The engine is invoked first with the requested   *)
(* strategy; a failed first invocation is followed by exactly one more,    *)
(* with the fallback strategy, when the requested strategy is not the      *)
(* fallback; otherwise, and when the fallback invocation fails, the        *)
(* failure propagates and nothing is produced.  At most two invocations,   *)
(* and none after a successful one.                                        *)
C2_FallbackRule ==
    /\ [] /\ Len(calls) <= 2
          /\ calls # << >> => calls[1] = strategy
          /\ Len(calls) = 2 => calls[2] = FALLBACK_STRATEGY
                               /\ strategy # FALLBACK_STRATEGY
          /\ pc = "fallback" => calls = <<strategy>>
                                /\ strategy # FALLBACK_STRATEGY
          /\ err = Some("PartitionError") =>
                /\ calls = IF strategy = FALLBACK_STRATEGY
                           THEN <<strategy>>
                           ELSE <<strategy, FALLBACK_STRATEGY>>
                /\ ~stream_open /\ elements = << >> /\ pages = << >>
                /\ IsNone(result)
    /\ [][stream_open => calls' = calls]_vars
    /\ [][pc = "extract" /\ ~stream_open' =>
            IF strategy # FALLBACK_STRATEGY
            THEN pc' = "fallback" /\ IsNone(err')
            ELSE pc' = "raised" /\ err' = Some("PartitionError")]_vars
    /\ [][pc = "fallback" => calls' = <<strategy, FALLBACK_STRATEGY>>]_vars

\* the requested strategy failed, the fallback succeeded and the scan ran
C2_Witness ==
    /\ calls = <<"ocr_only", FALLBACK_STRATEGY>>
    /\ stream_open
    /\ Len(elements) = 1

(* C3 as stated: after a "Title" element, current_section is the detected   *)
(* label, or else the element's text stripped of surrounding whitespace.   *)
C3_Original ==
    (elements # << >> /\ LastEl.category = "Title") =>
        LET section == detect_section_subsection(LastEl.text)[1]
        IN  current_section =
               IF ~IsNone(section) THEN section ELSE Some(Strip(LastEl.text))

(* C3 as amended: after a "Title" element, current_section is the detected  *)
(* label, or else the element's text exactly as the engine gave it, with   *)
(* its leading and trailing whitespace.                                    *)
C3_SectionOfTitle ==
    (elements # << >> /\ LastEl.category = "Title") =>
        LET section == detect_section_subsection(LastEl.text)[1]
        IN  current_section =
               IF ~IsNone(section) THEN section ELSE Some(LastEl.text)

\* a title without a label and with surrounding whitespace has been processed
C3_Witness ==
    /\ elements # << >>
    /\ LastEl.category = "Title"
    /\ LastEl.text = T_PLAIN
    /\ current_section = Some(T_PLAIN)

(* C4: the returned document has exactly one page group per distinct page   *)
(* number of the stream, none for another page number, none with an empty  *)
(* content list, in strictly ascending page_number order.                  *)
C4_PageGroups ==
    ~IsNone(result) =>
        LET pg == Val(result).pages
        IN  /\ { pg[i].page_number : i \in 1..Len(pg) }
                 = { elements[j].page_number : j \in 1..Len(elements) }
            /\ \A i \in 1..Len(pg) : pg[i].content # << >>
            /\ \A i \in 1..Len(pg) - 1 :
                  pg[i].page_number < pg[i + 1].page_number

\* the later page came first in the stream and comes second in the document
C4_Witness ==
    /\ ~IsNone(result)
    /\ Len(elements) = 2
    /\ elements[1].page_number = 2
    /\ elements[2].page_number = 1
    /\ Len(Val(result).pages) = 2
    /\ Val(result).pages[1].page_number = 1

(* C5: for every page, the content list holds one item per stream element   *)
(* of that page, in stream order; no other item exists.  It holds of the   *)
(* dict during the scan and of the returned document.                      *)
C5_ItemsFollowStream ==
    /\ pc = "scan" => PageListsFollowStream(pages)
    /\ ~IsNone(result) => PageListsFollowStream(Val(result).pages)

\* two different elements of one page, in the returned document
C5_Witness ==
    /\ ~IsNone(result)
    /\ Len(elements) = 2
    /\ elements[1].page_number = elements[2].page_number
    /\ elements[1].category = "NarrativeText"
    /\ elements[2].category = "Table"
    /\ Len(Val(result).pages[1].content) = 2

(* C6 as stated: for a text whose stripped form is a numeric heading, the   *)
(* detector returns the whole leading dotted-digit run as section label    *)
(* and the rest of the line after the whitespace as remainder.             *)
C6_WholePrefix ==
    (~IsNone(dres) /\ dtext # << >>) =>
        LET s == Strip(dtext)
            g == DotGroups(s, RunEnd(s, 1, Digit), 0)[1]
            w == RunEnd(s, g, Space)
        IN  (RunEnd(s, 1, Digit) > 1 /\ w > g /\ w <= Len(s)) =>
               Val(dres) = << Some(SubSeq(s, 1, g - 1)),
                              Some(SubSeq(s, w, Len(s))) >>

(* C7 as stated: an item of type table has table_data populated and text    *)
(* absent; an item of another type has text populated and table_data       *)
(* absent.                                                                 *)
C7_Original ==
    \A item \in ItemsOf(pages) :
        IF item.type = "table"
        THEN ~IsNone(item.table_data) /\ IsNone(item.text)
        ELSE ~IsNone(item.text) /\ IsNone(item.table_data)

(* C7 as amended: no item has both text and table_data.  A table item has   *)
(* text absent and table_data as the parse gave it (absent when the parse  *)
(* failed); a chart item has both absent; a paragraph item has text        *)
(* present (possibly the empty string) and table_data absent.              *)
C7_TextOrTable ==
    /\ \A item \in ItemsOf(pages) :
          /\ item.type = "table" => IsNone(item.text)
          /\ item.type = "chart" => IsNone(item.text) /\ IsNone(item.table_data)
          /\ item.type = "paragraph" =>
                ~IsNone(item.text) /\ IsNone(item.table_data)
    /\ (pc = "scan" /\ elements # << >> /\ LastEl.category = "Table") =>
          \E i \in 1..Len(pages) :
             /\ pages[i].page_number = LastEl.page_number
             /\ pages[i].content[Len(pages[i].content)].table_data = table_data

\* a chart with a text and a table whose parse failed have both yielded items
C7_Witness ==
    /\ pc = "scan"
    /\ Len(elements) = 2
    /\ elements[1].category = "Image"
    /\ elements[1].text # << >>
    /\ elements[2].category = "Table"
    /\ IsNone(table_data)
    /\ Cardinality(ItemsOf(pages)) = 2

(* C8: when the path names no existing file, the run raises the not-found   *)
(* error at once: the page count and the engine are never invoked and no   *)
(* element is processed.                                                   *)
C8_NotFoundFailsFast ==
    ~pdf_exists =>
        /\ count_calls = 0
        /\ calls = << >>
        /\ ~stream_open
        /\ elements = << >>
        /\ pages = << >>
        /\ pc \in {"start", "raised", "failed"}
        /\ pc # "start" => err = Some("FileNotFoundError")

\* the not-found error has been raised
C8_Witness ==
    /\ ~pdf_exists
    /\ pc = "raised"
    /\ err = Some("FileNotFoundError")

(* C9: the output file is written only after process_pdf has returned: a    *)
(* run in which the conversion fails never opens the output file and ends  *)
(* with the failure re-raised.                                             *)
C9_NoPartialOutput ==
    /\ ~IsNone(output) => pc = "done" /\ ~IsNone(result) /\ output = result
    /\ ~IsNone(err) => IsNone(output) /\ IsNone(result)
                       /\ pc \in {"raised", "failed"}
    /\ pc = "failed" => ~IsNone(err)

\* an error during the scan, after an item was collected, re-raised by main
C9_Witness ==
    /\ pc = "failed"
    /\ err = Some("AttributeError")
    /\ pages # << >>
    /\ IsNone(output)

(* C10 as stated: a "Table" element whose text cannot be parsed still       *)
(* yields one item of type table, with table_data absent and the table     *)
(* caption as description, and the scan goes on to the later elements.     *)
C10_ParseFailureGoesOn ==
    (elements # << >> /\ LastEl.category = "Table" /\ IsNone(table_data)
     /\ pc \in {"scan", "raised"}) =>
        /\ pc = "scan"
        /\ \E i \in 1..Len(pages) :
              LET c == pages[i].content
              IN  /\ pages[i].page_number = LastEl.page_number
                  /\ c[Len(c)].type = "table"
                  /\ IsNone(c[Len(c)].table_data)
                  /\ SubSeq(Val(c[Len(c)].description), 1, 2)
                       = <<"Table on page ", Str(LastEl.page_number)>>
        /\ PageListsFollowStream(pages)

----------------------------------------------------------------------------
(* Vocabulary of the later properties *)

\* t is digit groups separated by single dots: \d+(\.\d+)*
IsDottedNumber(t) ==
    /\ t # << >>
    /\ t[1] \in Digit
    /\ t[Len(t)] \in Digit
    /\ \A i \in 1..Len(t) : t[i] \in Digit \cup {"."}
    /\ \A i \in 1..Len(t) - 1 : ~(t[i] = "." /\ t[i + 1] = ".")

\* s is a dotted number, then whitespace, then at least one more character:
\* the pattern ^\d+(\.\d+)*\s+.+$ read as a description of s, not as a search
HeadingForm(s) ==
    \E a \in 1..Len(s), b \in 1..Len(s) :
        /\ a < b
        /\ b < Len(s)
        /\ IsDottedNumber(SubSeq(s, 1, a))
        /\ \A i \in (a + 1)..b : s[i] \in Space

\* the number of items of all pages
RECURSIVE ItemCount(_)
ItemCount(d) ==
    IF d = << >> THEN 0 ELSE Len(Head(d).content) + ItemCount(Tail(d))

\* the item of the element taken last (the scan has not raised)
LastItem ==
    LET i == CHOOSE i \in 1..Len(pages) :
                 pages[i].page_number = LastEl.page_number
    IN  pages[i].content[Len(pages[i].content)]

\* the stream positions of the elements of page p, in stream order
PositionsOnPage(p) ==
    SelectSeq([j \in 1..Len(elements) |-> j],
              LAMBDA j : elements[j].page_number = p)

\* the section state after the first j elements of the stream
RECURSIVE SectionAt(_)
SectionAt(j) ==
    IF j = 0 THEN None ELSE SectionAfter(elements[j], SectionAt(j - 1))

RECURSIVE SubsectionAt(_)
SubsectionAt(j) ==
    IF j = 0 THEN None ELSE SubsectionAfter(elements[j], SubsectionAt(j - 1))

\* every item of d carries the state as it was right after its own element
ItemsCarryOwnState(d) ==
    \A i \in 1..Len(d) :
        LET pos == PositionsOnPage(d[i].page_number)
        IN  /\ Len(d[i].content) = Len(pos)
            /\ \A k \in 1..Len(pos) :
                  /\ d[i].content[k].section = SectionAt(pos[k])
                  /\ d[i].content[k].sub_section = SubsectionAt(pos[k])

\* every item of d has the description of the earlier steps, followed by the
\* bbox annotation exactly when its element has coordinates
DescriptionsAnnotated(d) ==
    \A i \in 1..Len(d) :
        LET sub == OnPage(d[i].page_number)
        IN  /\ Len(d[i].content) = Len(sub)
            /\ \A k \in 1..Len(sub) :
                  LET base == BaseDescription(sub[k])
                      desc == d[i].content[k].description
                  IN  IF sub[k].coordinates = HasPoints
                      THEN desc = Some((IF IsNone(base) THEN << >> ELSE Val(base))
                                       \o <<" (bbox=", Points, ")">>)
                      ELSE desc = base

----------------------------------------------------------------------------
(* C11 as stated: the per-element step never raises and appends exactly    *)
(* one item, whatever the element's category, text and coordinates.        *)
C11_StepIsTotal ==
    stream_open => IsNone(err) /\ ItemCount(pages) = Len(elements)

(* C12 as stated: the detector returns a pair with both components present *)
(* or the pair (None, None), never a pair with exactly one absent.         *)
C12_BothOrNeither ==
    ~IsNone(dres) => (IsNone(Val(dres)[1]) <=> IsNone(Val(dres)[2]))

(* C13: for a text that is empty, or whose stripped form is not a dotted   *)
(* number followed by whitespace and further content, the detector        *)
(* returns (None, None).                                                   *)
C13_NoMatchNoResult ==
    (~IsNone(dres) /\ (dtext = << >> \/ ~HeadingForm(Strip(dtext)))) =>
        Val(dres) = <<None, None>>

\* "1. a": a number with a trailing dot is not of the heading form
C13_Witness ==
    /\ dtext = <<"1", ".", " ", "a">>
    /\ dres = Some(<<None, None>>)

(* C14: map_element_type maps every category to one of paragraph, table,   *)
(* chart: "Table" to table, "Image" and "FigureCaption" to chart, every    *)
(* other label to paragraph.                                               *)
C14_ClassifierTotal ==
    ~IsNone(dtype) =>
        /\ Val(dtype) \in {"paragraph", "table", "chart"}
        /\ Val(dtype) = "table" <=> dcat = "Table"
        /\ Val(dtype) = "chart" <=> dcat \in {"Image", "FigureCaption"}
        /\ Val(dtype) = "paragraph" <=>
              dcat \notin {"Table", "Image", "FigureCaption"}

\* a figure caption has been classified as a chart
C14_Witness ==
    /\ dcat = "FigureCaption"
    /\ dtype = Some("chart")

(* C15: after a "Title" element, current_subsection is the remainder the   *)
(* detector found on its text, and is absent when the text is not of the   *)
(* heading form, whatever an earlier title had set.                        *)
C15_SubsectionOfTitle ==
    (elements # << >> /\ LastEl.category = "Title") =>
        /\ current_subsection = detect_section_subsection(LastEl.text)[2]
        /\ ~HeadingForm(Strip(LastEl.text)) => IsNone(current_subsection)

\* a title without a number came after a title that had set a subsection
C15_Witness ==
    /\ Len(elements) = 2
    /\ elements[1].category = "Title"
    /\ elements[1].text = T_DOTTED
    /\ elements[2].category = "Title"
    /\ elements[2].text = T_PLAIN
    /\ IsNone(current_subsection)

(* C16 as stated: the item of a paragraph element has, before the bbox     *)
(* annotation, the description "Section header" exactly when the           *)
(* element's text is of the heading form, and none otherwise.              *)
C16_HeaderMarker ==
    (pc = "scan" /\ elements # << >>
     /\ map_element_type(LastEl.category) = "paragraph"
     /\ LastEl.coordinates = NoAttr) =>
        LastItem.description =
            IF LastEl.text # << >> /\ HeadingForm(Strip(LastEl.text))
            THEN Some(<<"Section header">>)
            ELSE None

(* C17: every item carries the section state as it is right after its own  *)
(* element: a title's item carries the heading this title sets, another    *)
(* item the values of the last title at or before it, and an item before   *)
(* the first title carries none.                                           *)
C17_ItemsCarryState ==
    /\ pc = "scan" => ItemsCarryOwnState(pages)
    /\ ~IsNone(result) => ItemsCarryOwnState(Val(result).pages)
    /\ (pc = "scan" /\ elements # << >>) =>
          /\ LastItem.section = current_section
          /\ LastItem.sub_section = current_subsection

\* a body element before the first title, then a title that sets a heading
C17_Witness ==
    /\ pc = "scan"
    /\ Len(elements) = 2
    /\ elements[1].category = "NarrativeText"
    /\ elements[2].category = "Title"
    /\ elements[2].text = T_DOTTED
    /\ elements[1].page_number = elements[2].page_number
    /\ IsNone(pages[1].content[1].section)
    /\ pages[1].content[2].section = Some(<<".", "2">>)

(* C18: the final description of an item is the description of the         *)
(* earlier steps (the empty string when there is none) followed by the     *)
(* bbox annotation when its element has coordinates, and the description   *)
(* of the earlier steps unchanged (absent stays absent) when it has none.  *)
C18_BBoxAnnotation ==
    /\ pc = "scan" => DescriptionsAnnotated(pages)
    /\ ~IsNone(result) => DescriptionsAnnotated(Val(result).pages)

\* a captioned table and an undescribed paragraph, both with coordinates
C18_Witness ==
    /\ pc = "scan"
    /\ Len(elements) = 2
    /\ elements[1].category = "Table"
    /\ elements[1].coordinates = HasPoints
    /\ elements[2].category = "NarrativeText"
    /\ elements[2].text = T_PLAIN
    /\ elements[2].coordinates = HasPoints
    /\ LastItem.description = Some(<<" (bbox=", Points, ")">>)

(* C19: a present sub_section comes with a present, non-empty section, in  *)
(* the carried state and in every item.                                    *)
C19_SubsectionHasSection ==
    /\ ~IsNone(current_subsection) =>
          ~IsNone(current_section) /\ Val(current_section) # << >>
    /\ \A item \in ItemsOf(pages) :
          ~IsNone(item.sub_section) =>
             ~IsNone(item.section) /\ Val(item.section) # << >>

\* a title "1 a": no label is detected, the section is the whole text
C19_Witness ==
    /\ pc = "scan"
    /\ elements # << >>
    /\ LastEl.category = "Title"
    /\ LastEl.text = T_ONE
    /\ LastItem.section = Some(T_ONE)
    /\ LastItem.sub_section = Some(<<"a">>)

====
